---------------------------- MODULE Spec2Model ----------------------------
(***************************************************************************)
(* Gas-sponsorship quota and fee-payer transaction assembly of apzdev.     *)
(*                                                                         *)
(* The storage layer is the SQL of supabase/migrations/003: the tables     *)
(* gas_station_config, gas_station_blocked_users, gas_station_whitelist,   *)
(* user_daily_quotas, gas_sponsorship_usage and the stored procedures      *)
(* check_user_gas_quota and record_gas_usage.  The TypeScript layer is the *)
(* gas-sponsor service (checkUserGasQuota, recordGasUsage,                 *)
(* buildSponsoredTransaction, submitSponsoredTransaction), the POST        *)
(* handler of the sponsor endpoint and the contract-version service with   *)
(* its process-wide cache.                                                 *)
(*                                                                         *)
(* Gas amounts are small integers (one unit stands for 50,000,000 octas in *)
(* the worked examples); dates and timestamps are day numbers.  A nullable *)
(* SQL value is a set with at most one element: {} is NULL, {v} is v.  A   *)
(* table keyed by a primary key is a function from the key to the set of   *)
(* rows with that key (empty or a singleton).                              *)
(***************************************************************************)
EXTENDS Integers, FiniteSets, Sequences, TLC

VARIABLES
    gas_station_config,         \* the single row of gas_station_config
    gas_station_blocked_users,  \* user_address -> rows of gas_station_blocked_users
    gas_station_whitelist,      \* user_address -> rows of gas_station_whitelist
    user_daily_quotas,          \* <<user_address, date>> -> rows of user_daily_quotas
    gas_sponsorship_usage,      \* committed rows of gas_sponsorship_usage
    now,                        \* the database clock, in days (CURRENT_DATE = now)
    checked,                    \* the latest check_user_gas_quota call and its row
    txn,                        \* record_gas_usage calls in progress, per session
    attempt,                    \* sponsorship attempts: phase-1 check, phase-2 recording
    svc,                        \* the latest gas-sponsor-service call and its outcome
    markets,                    \* id -> rows of markets
    secret,                     \* whether GAS_SPONSOR_PRIVATE_KEY is configured
    feePayerAccount,            \* the service's cached fee-payer account, or NULL
    response,                   \* the latest response of the sponsor endpoint
    clock,                      \* Date.now() of the web process, in ticks
    contractCache,              \* the contract-version cache: NULL when empty
    cacheTimestamp,             \* the time the cache was filled, 0 when never
    loads,                      \* contract-version calls in progress, per caller
    refreshedAt,                \* the time of the latest refreshContractVersions call
    served                      \* the latest answer of getContractByVersion

vars == <<gas_station_config, gas_station_blocked_users, gas_station_whitelist,
          user_daily_quotas, gas_sponsorship_usage, now, checked, txn, attempt,
          svc, markets, secret, feePayerAccount, response, clock,
          contractCache, cacheTimestamp, loads, refreshedAt, served>>

versionService == <<clock, contractCache, cacheTimestamp, loads, refreshedAt, served>>

service == <<markets, secret, feePayerAccount, response>>

adminTables == <<gas_station_config, gas_station_blocked_users, gas_station_whitelist>>
ledgerTables == <<user_daily_quotas, gas_sponsorship_usage>>

---------------------------------------------------------------------------
(* Bounds of the model *)

MaxGas == 4
MaxDay == 1
NumSessions == 3
NumWriters == 2
NumHashes == 2

(* The last tick of the web process's clock. *)
MaxClock == 4

Users == {"alice", "bob"}
Dates == 0..MaxDay
GasAmounts == 1..MaxGas
Sessions == 1..NumSessions
Writers == 1..NumWriters
Hashes == 1..NumHashes
GasInputs == {<<2, 1>>, <<1, 3>>}   \* <<gas units, gas unit price>>
Markets == {"m1"}

---------------------------------------------------------------------------
(* Nullable SQL values *)

Null == {}
Some(v) == {v}
Val(x) == CHOOSE v \in x : TRUE
Coalesce3(a, b, c) == IF a # Null THEN a ELSE IF b # Null THEN b ELSE c
Coalesce2(a, b) == IF a # Null THEN a ELSE b

(* PL/pgSQL takes an IF branch only when its condition is TRUE (not NULL). *)
SqlNot(x) == IF x = Null THEN Null ELSE Some(~Val(x))
IfTaken(x) == x = Some(TRUE)


---------------------------------------------------------------------------
(* check_user_gas_quota: the checks, in the order the procedure runs them *)

(* Mutant: the two switches joined by AND. *)
StationDisabledBothSwitches(v_config) ==
    ~v_config.enabled /\ v_config.emergency_stop

(* IF NOT v_config.enabled OR v_config.emergency_stop *)
StationDisabled(v_config) ==
    ~v_config.enabled \/ v_config.emergency_stop

(* Mutant: any block row blocks, whatever its blocked_until. *)
IsBlockedIgnoringExpiry(blockedRows, t) == blockedRows # {}

(* EXISTS(SELECT 1 FROM gas_station_blocked_users WHERE user_address = p
   AND (blocked_until IS NULL OR blocked_until > now())) *)
IsBlocked(blockedRows, t) ==
    \E r \in blockedRows : r.blocked_until = Null \/ Val(r.blocked_until) > t

(* FROM gas_station_whitelist WHERE user_address = p AND is_active = true *)
ActiveWhitelistRows(whitelistRows) ==
    {r \in whitelistRows : r.is_active}

(* SELECT EXISTS(...), custom_daily_limit INTO v_is_whitelisted,
   v_custom_limit FROM ... WHERE ...: a SELECT INTO that finds no row
   assigns NULL to both targets; both stay NULL when whitelist mode is off. *)
V_is_whitelisted(v_config, whitelistRows) ==
    IF v_config.whitelist_enabled /\ ActiveWhitelistRows(whitelistRows) # {}
    THEN Some(TRUE)
    ELSE Null

V_custom_limit(v_config, whitelistRows) ==
    IF v_config.whitelist_enabled /\ ActiveWhitelistRows(whitelistRows) # {}
    THEN (CHOOSE r \in ActiveWhitelistRows(whitelistRows) : TRUE).custom_daily_limit
    ELSE Null

(* IF v_config.whitelist_enabled THEN ... IF NOT v_is_whitelisted THEN *)
NotWhitelisted(v_config, whitelistRows) ==
    /\ v_config.whitelist_enabled
    /\ IfTaken(SqlNot(V_is_whitelisted(v_config, whitelistRows)))

(* SELECT * INTO v_quota ...; IF NOT FOUND THEN v_quota.gas_used_today := 0 *)
V_gas_used_today(quotaRows) ==
    IF quotaRows = {} THEN 0 ELSE (CHOOSE r \in quotaRows : TRUE).gas_used_today

(* v_quota.daily_limit := COALESCE(...) in the two branches of IF NOT FOUND *)
V_daily_limit(v_config, whitelistRows, quotaRows) ==
    IF quotaRows = {}
    THEN Val(Coalesce2(V_custom_limit(v_config, whitelistRows),
                       Some(v_config.default_daily_limit_per_user)))
    ELSE Val(Coalesce3((CHOOSE r \in quotaRows : TRUE).daily_limit,
                       V_custom_limit(v_config, whitelistRows),
                       Some(v_config.default_daily_limit_per_user)))

(* Mutant: the daily comparison without the estimate. *)
DailyQuotaExceededIgnoringEstimate(used, p_estimated_gas, limit) ==
    used > limit

(* Mutant: the daily comparison made non-strict. *)
DailyQuotaExceededAtLimit(used, p_estimated_gas, limit) ==
    used + p_estimated_gas >= limit

(* IF v_quota.gas_used_today + p_estimated_gas > v_quota.daily_limit *)
DailyQuotaExceeded(used, p_estimated_gas, limit) ==
    used + p_estimated_gas > limit

(* Mutant: the estimate compared with the daily default instead. *)
PerTxExceededAgainstDaily(p_estimated_gas, v_config) ==
    p_estimated_gas > v_config.default_daily_limit_per_user

(* IF p_estimated_gas > v_config.max_gas_per_transaction *)
PerTxExceeded(p_estimated_gas, v_config) ==
    p_estimated_gas > v_config.max_gas_per_transaction

ResultRow(has_quota, used, remaining, limit, reason) ==
    [has_quota |-> has_quota, gas_used_today |-> used,
     remaining_quota |-> remaining, daily_limit |-> limit, reason |-> reason]

(* The body of check_user_gas_quota over the rows it selects. *)
QuotaCheck(v_config, blockedRows, whitelistRows, quotaRows, t, p_estimated_gas) ==
    LET used == V_gas_used_today(quotaRows)
        limit == V_daily_limit(v_config, whitelistRows, quotaRows)
    IN  IF StationDisabled(v_config)
        THEN ResultRow(FALSE, 0, 0, 0, "Gas station disabled")
        ELSE IF IsBlocked(blockedRows, t)
        THEN ResultRow(FALSE, 0, 0, 0, "User blocked")
        ELSE IF NotWhitelisted(v_config, whitelistRows)
        THEN ResultRow(FALSE, 0, 0, 0, "User not whitelisted")
        ELSE IF DailyQuotaExceeded(used, p_estimated_gas, limit)
        THEN ResultRow(FALSE, used, limit - used, limit, "Daily quota exceeded")
        ELSE IF PerTxExceeded(p_estimated_gas, v_config)
        THEN ResultRow(FALSE, used, limit - used, limit,
                       "Gas per transaction limit exceeded")
        ELSE ResultRow(TRUE, used, limit - used, limit, "OK")

(* Mutant: the SELECT of the quota row without its date condition, which
   finds the user's oldest row. *)
CheckUserGasQuotaAnyDate(p_user_address, p_estimated_gas) ==
    LET ds == {k[2] : k \in {j \in DOMAIN user_daily_quotas :
                                /\ j[1] = p_user_address
                                /\ user_daily_quotas[j] # {}}}
        first == CHOOSE d \in ds : \A e \in ds : d <= e
    IN  QuotaCheck(gas_station_config,
                   gas_station_blocked_users[p_user_address],
                   gas_station_whitelist[p_user_address],
                   IF ds = {} THEN {} ELSE user_daily_quotas[<<p_user_address, first>>],
                   now, p_estimated_gas)

(* check_user_gas_quota(p_user_address, p_estimated_gas) on the current tables *)
check_user_gas_quota(p_user_address, p_estimated_gas) ==
    QuotaCheck(gas_station_config,
               gas_station_blocked_users[p_user_address],
               gas_station_whitelist[p_user_address],
               user_daily_quotas[<<p_user_address, now>>],
               now, p_estimated_gas)

---------------------------------------------------------------------------
(* The rows the tables can hold *)

DailyLimits == {2, MaxGas}
PerTxLimits == {1, 2}

ConfigRows ==
    [enabled : BOOLEAN, emergency_stop : BOOLEAN, whitelist_enabled : BOOLEAN,
     market_whitelist_enabled : {TRUE},
     default_daily_limit_per_user : DailyLimits,
     max_gas_per_transaction : PerTxLimits]

(* The timestamps a row can hold: yesterday (-1) and the days of the model. *)
Timestamps == {-1} \cup Dates

BlockedRows == [blocked_until : {Null} \cup {Some(d) : d \in Timestamps}]

WhitelistRows ==
    [is_active : BOOLEAN, custom_daily_limit : {Null, Some(3)},
     expires_at : {Null} \cup {Some(d) : d \in Timestamps}]

QuotaRows ==
    [gas_used_today : 0..MaxGas, transactions_today : {1},
     daily_limit : {Null, Some(1)}]

AtMostOne(S) == {{}} \cup {{r} : r \in S}

NoTxn == [pc |-> "idle", outcome |-> "none"]
NoAttempt == [pc |-> "Requested"]
NoCall == [fn |-> "none"]
NoResponse == [status |-> 0]

MarketIds == {"m1", "m2"}
MarketStatuses == {"active", "pending", "resolved", "cancelled"}
KnownMarketSystems == {"v3-binary", "v3-multi", "v4-binary", "v4-multi"}
MarketRows ==
    [is_gas_sponsored : BOOLEAN, status : MarketStatuses,
     market_system : {"v3-binary", "legacy"}]

(* The service before any request: one active sponsored market, the secret
   configured, no fee-payer account loaded yet. *)
NoLoad == [pc |-> "idle"]

NoAnswer == [kind |-> "none"]

(* The contract-version service of a process that has started: the module's
   initial values, contractCache = new Map() and cacheTimestamp = 0. *)
VersionServiceIdle ==
    /\ clock = 1
    /\ contractCache = Null
    /\ cacheTimestamp = 0
    /\ loads = [c \in Writers |-> NoLoad]
    /\ refreshedAt = 0
    /\ served = NoAnswer

ServiceIdle ==
    /\ VersionServiceIdle
    /\ markets = [m \in MarketIds |->
                    IF m = "m1"
                    THEN {[is_gas_sponsored |-> TRUE, status |-> "active",
                           market_system |-> "v3-binary"]}
                    ELSE {}]
    /\ secret = TRUE
    /\ feePayerAccount = Null
    /\ response = NoResponse

---------------------------------------------------------------------------
(* Policy: check_user_gas_quota called on tables an administrator and earlier
   recordings have filled. *)

PolicyInit ==
    /\ gas_station_config \in ConfigRows
    /\ now = 0
    /\ \E b \in AtMostOne(BlockedRows), w \in AtMostOne(WhitelistRows),
          q \in AtMostOne(QuotaRows) :
          /\ gas_station_blocked_users = [u \in Users |-> IF u = "alice" THEN b ELSE {}]
          /\ gas_station_whitelist = [u \in Users |-> IF u = "alice" THEN w ELSE {}]
          /\ user_daily_quotas =
                [k \in Users \X Dates |-> IF k = <<"alice", now>> THEN q ELSE {}]
    /\ gas_sponsorship_usage = {}
    /\ checked = Null
    /\ txn = [s \in Sessions |-> NoTxn]
    /\ attempt = [a \in Sessions |-> NoAttempt]
    /\ svc = NoCall
    /\ ServiceIdle

(* Mutant: "Get or create today's quota" creating the row when the SELECT
   finds none. *)
QuotasAfterCheckCreatingRow(p_user_address, quotas) ==
    [quotas EXCEPT ![<<p_user_address, now>>] =
        IF @ = {}
        THEN {[gas_used_today |-> 0, transactions_today |-> 0, daily_limit |-> Null]}
        ELSE @]

(* user_daily_quotas after check_user_gas_quota: the procedure assigns to
   its local v_quota only; it has no INSERT, UPDATE or DELETE. *)
QuotasAfterCheck(p_user_address, quotas) == quotas

(* A client calls check_user_gas_quota. *)
CheckQuota(u, est) ==
    /\ checked' = Some([user |-> u, estimated_gas |-> est,
                        row |-> check_user_gas_quota(u, est)])
    /\ user_daily_quotas' = QuotasAfterCheck(u, user_daily_quotas)
    /\ UNCHANGED <<versionService, adminTables, gas_sponsorship_usage, now, txn, attempt, svc,
                   service>>

PolicyNext == \E u \in Users, est \in GasAmounts : CheckQuota(u, est)

SpecPolicy == PolicyInit /\ [][PolicyNext]_vars


---------------------------------------------------------------------------
(* Claims about the policy (SpecPolicy) *)

(* The eligibility rules as the specification words them, on the current
   tables: station on, no unexpired block, and in whitelist mode an active,
   unexpired whitelist entry. *)
StationOff == ~gas_station_config.enabled \/ gas_station_config.emergency_stop

HasUnexpiredBlock(u) ==
    \E r \in gas_station_blocked_users[u] :
        r.blocked_until = Null \/ Val(r.blocked_until) > now

HasValidWhitelistEntry(u) ==
    \E r \in gas_station_whitelist[u] :
        r.is_active /\ (r.expires_at = Null \/ Val(r.expires_at) > now)

FailsWhitelist(u) ==
    gas_station_config.whitelist_enabled /\ ~HasValidWhitelistEntry(u)

OtherwiseEligible(u) == ~StationOff /\ ~HasUnexpiredBlock(u) /\ ~FailsWhitelist(u)

UsedToday(u) == V_gas_used_today(user_daily_quotas[<<u, now>>])

EffectiveDailyLimit(u) ==
    V_daily_limit(gas_station_config, gas_station_whitelist[u],
                  user_daily_quotas[<<u, now>>])

MaxPerTx == gas_station_config.max_gas_per_transaction

(* C1: with enabled = false or emergency_stop = true, check_user_gas_quota
   denies every user and every estimated cost, whatever the user's quota,
   whitelist and block rows are. *)
C1_KillSwitch ==
    \A c \in checked : StationOff => ~c.row.has_quota

C1_Witness ==
    \E c \in checked :
        /\ ~gas_station_config.enabled /\ ~gas_station_config.emergency_stop
        /\ c.user = "alice"
        /\ gas_station_blocked_users["alice"] = {}
        /\ HasValidWhitelistEntry("alice")
        /\ user_daily_quotas[<<"alice", now>>] # {}
        /\ UsedToday("alice") + c.estimated_gas <= EffectiveDailyLimit("alice")
        /\ c.estimated_gas <= MaxPerTx
        /\ ~c.row.has_quota

(* The failing checks of a request for a sponsorable market, in the order
   the specification gives: (1) station, (2) block, (3) whitelist,
   (5) daily quota, (6) per-transaction limit; check (4) passes. *)
FailingChecks(u, est) ==
    (IF StationOff THEN {1} ELSE {})
    \cup (IF HasUnexpiredBlock(u) THEN {2} ELSE {})
    \cup (IF FailsWhitelist(u) THEN {3} ELSE {})
    \cup (IF UsedToday(u) + est > EffectiveDailyLimit(u) THEN {5} ELSE {})
    \cup (IF est > MaxPerTx THEN {6} ELSE {})

ReasonOf(n) ==
    CASE n = 1 -> "Gas station disabled"
      [] n = 2 -> "User blocked"
      [] n = 3 -> "User not whitelisted"
      [] n = 5 -> "Daily quota exceeded"
      [] n = 6 -> "Gas per transaction limit exceeded"

FirstFailing(S) == CHOOSE n \in S : \A m \in S : n <= m

(* C2: a request that fails several checks at once is denied with the reason
   of the first failing check in the order station, block, whitelist,
   market, daily quota, per-transaction limit. *)
C2_EvaluationOrder ==
    \A c \in checked :
        LET failing == FailingChecks(c.user, c.estimated_gas)
        IN  Cardinality(failing) >= 2 =>
                /\ ~c.row.has_quota
                /\ c.row.reason = ReasonOf(FirstFailing(failing))

ExampleDailyLimit == 100
ExampleMaxGasPerTx == 2

ExampleConfig ==
    [enabled |-> TRUE, emergency_stop |-> FALSE, whitelist_enabled |-> FALSE,
     market_whitelist_enabled |-> TRUE,
     default_daily_limit_per_user |-> ExampleDailyLimit,
     max_gas_per_transaction |-> ExampleMaxGasPerTx]

ExampleQuotaRow(used) ==
    {[gas_used_today |-> used, transactions_today |-> 1, daily_limit |-> Null]}

(* C3: for an otherwise eligible request within the per-transaction limit,
   an estimate of exactly limit - used is approved and an estimate of
   limit - used + 1 is denied with 'Daily quota exceeded'; with limit
   5,000,000,000, used 4,950,000,000 and cost 100,000,000 (100, 99 and 2
   units of 50,000,000) the request is denied. *)
C3_DailyBoundary ==
    /\ \A c \in checked :
        LET L == EffectiveDailyLimit(c.user)
            u == UsedToday(c.user)
        IN  OtherwiseEligible(c.user) =>
              /\ (c.estimated_gas = L - u /\ c.estimated_gas <= MaxPerTx)
                    => c.row.has_quota
              /\ c.estimated_gas = L - u + 1
                    => ~c.row.has_quota /\ c.row.reason = "Daily quota exceeded"
    /\ LET r == QuotaCheck(ExampleConfig, {}, {}, ExampleQuotaRow(99), 0, 2)
       IN  ~r.has_quota /\ r.reason = "Daily quota exceeded"

C3_Witness ==
    \E c \in checked :
        /\ OtherwiseEligible(c.user)
        /\ UsedToday(c.user) > 0
        /\ c.estimated_gas = EffectiveDailyLimit(c.user) - UsedToday(c.user)
        /\ c.estimated_gas <= MaxPerTx
        /\ c.row.has_quota

(* C4: an otherwise eligible request of max_gas_per_transaction + 1 with at
   least that much daily headroom is denied with 'Gas per transaction limit
   exceeded', and no request above max_gas_per_transaction is approved. *)
C4_PerTransactionLimit ==
    \A c \in checked :
        /\ c.row.has_quota => c.estimated_gas <= MaxPerTx
        /\ ( /\ OtherwiseEligible(c.user)
             /\ EffectiveDailyLimit(c.user) - UsedToday(c.user) >= MaxPerTx + 1
             /\ c.estimated_gas = MaxPerTx + 1 )
           => /\ ~c.row.has_quota
              /\ c.row.reason = "Gas per transaction limit exceeded"

C4_Witness ==
    \E c \in checked :
        /\ OtherwiseEligible(c.user)
        /\ UsedToday(c.user) > 0
        /\ EffectiveDailyLimit(c.user) - UsedToday(c.user) >= MaxPerTx + 1
        /\ c.estimated_gas = MaxPerTx + 1
        /\ c.row.reason = "Gas per transaction limit exceeded"

(* C11: a check_user_gas_quota call, for any user and cost, leaves the
   configuration, every user_daily_quotas row and every gas_sponsorship_usage
   row as they were; no quota row is created by a check. *)
C11_CheckIsPure ==
    [][ checked' # checked
        => /\ gas_station_config' = gas_station_config
           /\ user_daily_quotas' = user_daily_quotas
           /\ gas_sponsorship_usage' = gas_sponsorship_usage
           /\ gas_station_whitelist' = gas_station_whitelist
           /\ gas_station_blocked_users' = gas_station_blocked_users
      ]_vars

C11_Witness ==
    \E c \in checked :
        /\ c.user = "bob"
        /\ c.row.has_quota
        /\ user_daily_quotas[<<"bob", now>>] = {}
        /\ \E q \in user_daily_quotas[<<"alice", now>>] : q.gas_used_today > 0

(* C13: with the station on, a user with a block row whose blocked_until is
   NULL or later than now is denied with 'User blocked'; a user whose only
   block row has blocked_until before now is not denied as blocked and gets
   the result the later checks give without the block row. *)
C13_BlockedUsers ==
    \A c \in checked :
        LET rows == gas_station_blocked_users[c.user]
        IN  /\ (~StationOff /\ HasUnexpiredBlock(c.user))
               => ~c.row.has_quota /\ c.row.reason = "User blocked"
            /\ ( /\ rows # {}
                 /\ \A r \in rows : r.blocked_until # Null /\ Val(r.blocked_until) < now )
               => /\ c.row.reason # "User blocked"
                  /\ c.row = QuotaCheck(gas_station_config, {},
                                        gas_station_whitelist[c.user],
                                        user_daily_quotas[<<c.user, now>>],
                                        now, c.estimated_gas)

C13_Witness ==
    \E c \in checked :
        /\ c.user = "alice"
        /\ \E r \in gas_station_blocked_users["alice"] :
              r.blocked_until # Null /\ Val(r.blocked_until) < now
        /\ c.row.has_quota

(* C14: in whitelist mode a user is approved only with a whitelist entry
   that is active and unexpired, and a user who is not blocked and has no
   such entry (absent, inactive or expired) is denied with 'User not
   whitelisted', the station being on. *)
C14_WhitelistGate ==
    \A c \in checked :
        gas_station_config.whitelist_enabled
        => /\ c.row.has_quota => HasValidWhitelistEntry(c.user)
           /\ ( /\ ~StationOff
                /\ ~HasUnexpiredBlock(c.user)
                /\ ~HasValidWhitelistEntry(c.user) )
              => /\ ~c.row.has_quota
                 /\ c.row.reason = "User not whitelisted"

(* The limit in the order the specification gives: the custom limit of the
   user's valid whitelist entry, else the override of today's quota row,
   else the global default. *)
ClaimedDailyLimit(u) ==
    LET custom == IF \E r \in gas_station_whitelist[u] :
                        /\ r.is_active
                        /\ (r.expires_at = Null \/ Val(r.expires_at) > now)
                        /\ r.custom_daily_limit # Null
                  THEN (CHOOSE r \in gas_station_whitelist[u] : TRUE).custom_daily_limit
                  ELSE Null
        override == IF user_daily_quotas[<<u, now>>] = {} THEN Null
                    ELSE (CHOOSE r \in user_daily_quotas[<<u, now>>] : TRUE).daily_limit
    IN  Val(Coalesce3(custom, override,
                      Some(gas_station_config.default_daily_limit_per_user)))

(* C15: every check that reaches the daily-quota test uses, and reports as
   daily_limit, the whitelist custom limit if present, else the quota row's
   override if present, else the global default, with or without a quota
   row for today and with whitelist mode on or off. *)
C15_EffectiveLimitPrecedence ==
    \A c \in checked :
        c.row.reason \in {"OK", "Daily quota exceeded",
                          "Gas per transaction limit exceeded"}
        => /\ c.row.daily_limit = ClaimedDailyLimit(c.user)
           /\ (c.row.reason = "Daily quota exceeded")
              = (UsedToday(c.user) + c.estimated_gas > ClaimedDailyLimit(c.user))

(* C16: every approval reports as remaining quota the effective daily limit
   less the gas used today less the estimated cost of the request, and that
   is never negative. *)
C16_RemainingQuotaAfter ==
    \A c \in checked :
        c.row.has_quota
        => /\ c.row.remaining_quota
                = c.row.daily_limit - c.row.gas_used_today - c.estimated_gas
           /\ c.row.remaining_quota >= 0


---------------------------------------------------------------------------
(* record_gas_usage.  One call is one database transaction of two
   statements: the INSERT into gas_sponsorship_usage and the upsert of
   user_daily_quotas.  Other sessions run between the two; the rows a
   transaction wrote are visible to them once it commits.  now() and
   CURRENT_DATE are those of the transaction's start.  tx_version and
   fee_payer_address are stored as given and read by nothing. *)

(* Mutant: the fee as the sum of its factors. *)
TotalGasFeeAdded(p_gas_used, p_gas_unit_price) == p_gas_used + p_gas_unit_price

(* v_total_gas_fee := p_gas_used * p_gas_unit_price *)
TotalGasFee(p_gas_used, p_gas_unit_price) == p_gas_used * p_gas_unit_price

(* Mutant: gas_sponsorship_usage without the UNIQUE constraint on tx_hash. *)
UniqueViolationNever(p_tx_hash, usage) == FALSE

(* tx_hash TEXT NOT NULL UNIQUE *)
UniqueViolation(p_tx_hash, usage) ==
    \E r \in usage : r.tx_hash = p_tx_hash

(* INSERT INTO gas_sponsorship_usage (...) VALUES (...) *)
UsageRow(p_user_address, p_market_id, p_tx_hash, p_gas_used, p_gas_unit_price, t) ==
    [market_id |-> p_market_id, user_address |-> p_user_address,
     tx_hash |-> p_tx_hash, gas_used |-> p_gas_used,
     gas_unit_price |-> p_gas_unit_price,
     total_gas_fee |-> TotalGasFee(p_gas_used, p_gas_unit_price),
     sponsored_at |-> t]

(* Mutant: the conflict branch stores the new fee instead of adding it. *)
UpsertQuotaOverwrite(quotaRows, v_total_gas_fee) ==
    IF quotaRows = {}
    THEN {[gas_used_today |-> v_total_gas_fee, transactions_today |-> 1,
           daily_limit |-> Null]}
    ELSE {[r EXCEPT !.gas_used_today = v_total_gas_fee,
                    !.transactions_today = 1] : r \in quotaRows}

(* INSERT INTO user_daily_quotas ... ON CONFLICT (user_address, date)
   DO UPDATE SET gas_used_today = gas_used_today + v_total_gas_fee,
   transactions_today = transactions_today + 1 *)
UpsertQuota(quotaRows, v_total_gas_fee) ==
    IF quotaRows = {}
    THEN {[gas_used_today |-> v_total_gas_fee, transactions_today |-> 1,
           daily_limit |-> Null]}
    ELSE {[r EXCEPT !.gas_used_today = @ + v_total_gas_fee,
                    !.transactions_today = @ + 1] : r \in quotaRows}

(* The first statement.  A hash another open transaction has inserted
   makes the INSERT wait for that transaction; a committed one raises
   unique_violation, which aborts the call with nothing written. *)
RecordInsert(s, u, m, h, g, price) ==
    /\ txn[s].pc = "idle"
    /\ \A o \in Sessions \ {s} : txn[o].pc = "inserted" => txn[o].row.tx_hash # h
    /\ IF UniqueViolation(h, gas_sponsorship_usage)
       THEN txn' = [txn EXCEPT ![s] = [pc |-> "idle", outcome |-> "unique_violation"]]
       ELSE txn' = [txn EXCEPT ![s] = [pc |-> "inserted", outcome |-> "none",
                                       row |-> UsageRow(u, m, h, g, price, now)]]
    /\ UNCHANGED versionService
    /\ UNCHANGED <<adminTables, ledgerTables, now, checked, svc, service>>

(* The second statement and the commit. *)
RecordUpsert(s) ==
    /\ txn[s].pc = "inserted"
    /\ LET row == txn[s].row
           key == <<row.user_address, row.sponsored_at>>
       IN  /\ gas_sponsorship_usage' = gas_sponsorship_usage \cup {row}
           /\ user_daily_quotas' =
                [user_daily_quotas EXCEPT ![key] = UpsertQuota(@, row.total_gas_fee)]
    /\ txn' = [txn EXCEPT ![s] = NoTxn]
    /\ UNCHANGED <<versionService, adminTables, now, checked, svc, service>>

NextDay ==
    /\ now < MaxDay
    /\ now' = now + 1
    /\ UNCHANGED versionService
    /\ UNCHANGED <<adminTables, ledgerTables, checked, txn, attempt, svc, service>>

---------------------------------------------------------------------------
(* The gas-sponsor service's calls into the stored procedures *)

(* The named arguments of the procedures' signatures. *)
CheckUserGasQuotaParams == {"p_user_address", "p_estimated_gas"}
CheckUserGasQuotaRequired == {"p_user_address"}
RecordGasUsageParams ==
    {"p_user_address", "p_market_id", "p_tx_hash", "p_tx_version",
     "p_gas_used", "p_gas_unit_price", "p_fee_payer_address"}

(* The named arguments the service passes to supabase.rpc. *)
CheckUserGasQuotaArgs == {"p_user_address", "p_required_amount"}
RecordGasUsageArgs ==
    {"p_user_address", "p_market_id", "p_gas_used", "p_tx_hash",
     "p_transaction_type"}

(* supabase.rpc(fn, args) runs the procedure whose parameters the named
   arguments fit: every argument a parameter, every parameter without a
   default given.  Otherwise it returns an error and runs nothing. *)
RpcResolves(args, required, params) ==
    required \subseteq args /\ args \subseteq params

(* Mutant: the rpc error rethrown to the caller. *)
RecordGasUsageThrowsOnError(error) == error

(* recordGasUsage: if (error) { console.error(...) }  -- "Don't throw" *)
RecordGasUsageThrows(error) == FALSE

(* recordGasUsage(userAddress, marketId, gasUsed, txHash, transactionType).
   fault: the storage call itself fails. *)
RecordGasUsage(userAddress, marketId, gasUsed, txHash, fault) ==
    LET error == fault \/ ~RpcResolves(RecordGasUsageArgs, RecordGasUsageParams,
                                        RecordGasUsageParams)
    IN  /\ error
        /\ svc' = [fn |-> "recordGasUsage", error |-> error,
                   thrown |-> RecordGasUsageThrows(error)]
        /\ UNCHANGED versionService
        /\ UNCHANGED <<adminTables, ledgerTables, now, checked, txn, attempt, service>>

EnabledConfigs ==
    [enabled : {TRUE}, emergency_stop : {FALSE}, whitelist_enabled : {FALSE},
     market_whitelist_enabled : {TRUE},
     default_daily_limit_per_user : DailyLimits,
     max_gas_per_transaction : PerTxLimits]

(* The tables after the migration: the inserted configuration row, every
   other table empty. *)
Init ==
    /\ gas_station_config \in
         {c \in EnabledConfigs : /\ c.default_daily_limit_per_user = MaxGas
                                 /\ c.max_gas_per_transaction = 2}
    /\ gas_station_blocked_users = [u \in Users |-> {}]
    /\ gas_station_whitelist = [u \in Users |-> {}]
    /\ user_daily_quotas = [k \in Users \X Dates |-> {}]
    /\ gas_sponsorship_usage = {}
    /\ now = 0
    /\ checked = Null
    /\ txn = [s \in Sessions |-> NoTxn]
    /\ attempt = [a \in Sessions |-> NoAttempt]
    /\ svc = NoCall
    /\ ServiceIdle

Next ==
    \/ \E s \in Writers, u \in Users, m \in Markets, h \in Hashes, gp \in GasInputs :
            RecordInsert(s, u, m, h, gp[1], gp[2]) /\ UNCHANGED attempt
    \/ \E s \in Writers : RecordUpsert(s) /\ UNCHANGED attempt
    \/ \E h \in Hashes, fault \in BOOLEAN :
            RecordGasUsage("alice", "m1", 1, h, fault)
    \/ NextDay

Spec == Init /\ [][Next]_vars


---------------------------------------------------------------------------
(* Claims about the ledger (Spec) *)

RECURSIVE SumFees(_)
SumFees(R) ==
    IF R = {} THEN 0
    ELSE LET r == CHOOSE x \in R : TRUE
         IN  r.total_gas_fee + SumFees(R \ {r})

RecordedFor(u, d) ==
    {r \in gas_sponsorship_usage : r.user_address = u /\ r.sponsored_at = d}

RecordedHashes == {r.tx_hash : r \in gas_sponsorship_usage}

(* C5: a record_gas_usage call whose transaction hash is already recorded
   leaves every user_daily_quotas row and the set of gas_sponsorship_usage
   rows as they were, ends there, and recordGasUsage does not throw the
   storage error to its caller. *)
C5_IdempotentRecording ==
    [][ /\ \A s \in Sessions :
             ( /\ txn[s].pc = "idle"
               /\ txn'[s] # txn[s]
               /\ txn'[s].outcome = "unique_violation" )
             => /\ txn'[s].pc = "idle"
                /\ user_daily_quotas' = user_daily_quotas
                /\ gas_sponsorship_usage' = gas_sponsorship_usage
        /\ \A s \in Sessions :
             (txn[s].pc = "inserted" /\ txn[s].row.tx_hash \in RecordedHashes)
             => /\ user_daily_quotas' = user_daily_quotas
                /\ gas_sponsorship_usage' = gas_sponsorship_usage
        /\ (svc'.fn = "recordGasUsage" /\ svc'.error) => ~svc'.thrown
      ]_vars

C5_Witness ==
    \E s \in Sessions, r \in gas_sponsorship_usage :
        /\ txn[s].outcome = "unique_violation"
        /\ Cardinality(gas_sponsorship_usage) = 1
        /\ \E q \in user_daily_quotas[<<r.user_address, r.sponsored_at>>] :
              /\ q.transactions_today = 1
              /\ q.gas_used_today = r.total_gas_fee

(* C6: for every user and date, gas_used_today is the sum of the fees of the
   committed recordings with distinct hashes for that user and date and
   transactions_today is their number, whatever the interleaving of the
   writers. *)
C6_NoLostUpdates ==
    \A u \in Users, d \in Dates :
        LET R == RecordedFor(u, d)
        IN  IF R = {}
            THEN user_daily_quotas[<<u, d>>] = {}
            ELSE \E q \in user_daily_quotas[<<u, d>>] :
                    /\ q.gas_used_today = SumFees(R)
                    /\ q.transactions_today = Cardinality(R)

C6_Witness ==
    \E u \in Users, d \in Dates :
        /\ Cardinality(RecordedFor(u, d)) >= 2
        /\ \E q \in user_daily_quotas[<<u, d>>] : q.transactions_today >= 2


---------------------------------------------------------------------------
(* The race between phase 1 and phase 2.  Every attempt calls
   check_user_gas_quota with its estimate (phase 1) and, once approved and
   confirmed on chain, records its usage with record_gas_usage (phase 2),
   a fee of at most the estimate it was checked with, under the hash of its
   own transaction.  Nothing is reserved in between. *)

Phase1Check(a, u, est) ==
    /\ attempt[a].pc = "Requested"
    /\ attempt' = [attempt EXCEPT ![a] =
                     [pc |-> IF check_user_gas_quota(u, est).has_quota
                             THEN "Approved" ELSE "Denied",
                      user |-> u, estimated_gas |-> est]]
    /\ UNCHANGED versionService
    /\ UNCHANGED <<adminTables, ledgerTables, now, checked, txn, svc, service>>

Phase2Insert(a, m, g) ==
    /\ attempt[a].pc = "Approved"
    /\ g <= attempt[a].estimated_gas
    /\ RecordInsert(a, attempt[a].user, m, a, g, 1)
    /\ attempt' = [attempt EXCEPT ![a].pc = "Recording"]

Phase2Commit(a) ==
    /\ attempt[a].pc = "Recording"
    /\ RecordUpsert(a)
    /\ attempt' = [attempt EXCEPT ![a].pc = "Recorded"]

RaceInit ==
    /\ gas_station_config \in EnabledConfigs
    /\ gas_station_blocked_users = [u \in Users |-> {}]
    /\ gas_station_whitelist = [u \in Users |-> {}]
    /\ user_daily_quotas = [k \in Users \X Dates |-> {}]
    /\ gas_sponsorship_usage = {}
    /\ now = 0
    /\ checked = Null
    /\ txn = [s \in Sessions |-> NoTxn]
    /\ attempt = [a \in Sessions |-> NoAttempt]
    /\ svc = NoCall
    /\ ServiceIdle

RaceNext ==
    \/ \E a \in Sessions, est \in GasAmounts : Phase1Check(a, "alice", est)
    \/ \E a \in Sessions, m \in Markets, g \in GasAmounts : Phase2Insert(a, m, g)
    \/ \E a \in Sessions : Phase2Commit(a)
    \/ NextDay

SpecRace == RaceInit /\ [][RaceNext]_vars

(* Claims about the race (SpecRace) *)

ApprovedAttempts(u) ==
    {a \in Sessions : /\ attempt[a].pc \in {"Approved", "Recording", "Recorded"}
                      /\ attempt[a].user = u}

Overshoot(u) == UsedToday(u) - EffectiveDailyLimit(u)

(* C7 as stated: the recorded gas_used_today exceeds the user's effective
   daily limit by at most max_gas_per_transaction. *)
C7_OvershootAtMostOneTransaction ==
    \A u \in Users : Overshoot(u) <= MaxPerTx

(* C7, amended: with n approved requests of the user (n >= 1), each
   recording at most the estimate it was checked with, gas_used_today
   exceeds the effective daily limit by at most (n - 1) times
   max_gas_per_transaction; with none it is within the limit. *)
C7_OvershootBoundedByConcurrency ==
    \A u \in Users :
        LET n == Cardinality(ApprovedAttempts(u))
        IN  Overshoot(u) <= (IF n = 0 THEN 0 ELSE (n - 1) * MaxPerTx)

C7_Witness ==
    \E u \in Users :
        /\ Cardinality({a \in ApprovedAttempts(u) : attempt[a].pc = "Recorded"}) >= 2
        /\ Overshoot(u) > 0


---------------------------------------------------------------------------
(* The sponsorship flow of the web tier: the gas-sponsor service's exported
   functions and the POST handler of the sponsor endpoint.  A storage call
   or a chain call may fail; each action draws that outcome as an input. *)

(* const estimatedGas = 100000, in the model's gas unit *)
EstimatedGas == 1

(* data?.allowed, data?.remaining, data?.message: data is the array of rows
   the procedure returned, and an array has no property of these names. *)
Property(data, name) ==
    IF data = Null THEN Null
    ELSE IF name = "length" THEN Some(Len(Val(data)))
    ELSE Null

(* Mutant: the error branch approves. *)
CheckUserGasQuotaFailOpen(error, data) ==
    IF error
    THEN [allowed |-> TRUE, remaining |-> 0, message |-> Some("Failed to check quota")]
    ELSE [allowed |-> Val(Coalesce2(Property(data, "allowed"), Some(FALSE))),
          remaining |-> Val(Coalesce2(Property(data, "remaining"), Some(0))),
          message |-> Property(data, "message")]

(* The value checkUserGasQuota returns for the rpc's { data, error }. *)
CheckUserGasQuotaResult(error, data) ==
    IF error
    THEN [allowed |-> FALSE, remaining |-> 0, message |-> Some("Failed to check quota")]
    ELSE [allowed |-> Val(Coalesce2(Property(data, "allowed"), Some(FALSE))),
          remaining |-> Val(Coalesce2(Property(data, "remaining"), Some(0))),
          message |-> Property(data, "message")]

(* checkUserGasQuota(userAddress, requiredGas).  fault: the storage call
   itself fails. *)
checkUserGasQuota(userAddress, requiredGas, fault) ==
    LET error == fault \/ ~RpcResolves(CheckUserGasQuotaArgs,
                                        CheckUserGasQuotaRequired,
                                        CheckUserGasQuotaParams)
        data  == IF error THEN Null
                 ELSE Some(<<check_user_gas_quota(userAddress, requiredGas)>>)
    IN  [error |-> error, data |-> data,
         result |-> CheckUserGasQuotaResult(error, data)]

CallCheckUserGasQuota(userAddress, requiredGas, fault) ==
    /\ svc' = [fn |-> "checkUserGasQuota"] @@
              checkUserGasQuota(userAddress, requiredGas, fault)
    /\ UNCHANGED versionService
    /\ UNCHANGED <<adminTables, ledgerTables, now, checked, txn, attempt, service>>

(* getFeePayerAccount: the cached account, else the one made from the
   secret; throws when there is neither. *)
FeePayerAvailable == feePayerAccount # Null \/ secret

(* getMarketFunctionPath returns a path: the market system is one of the
   switch's cases and the contract is loaded and found. *)
FunctionPathResolves(marketSystem, contractsFault) ==
    marketSystem \in KnownMarketSystems /\ ~contractsFault

(* buildSponsoredTransaction: build with the fee payer, then sign as fee
   payer.  buildFault: aptos.transaction.build.simple throws.  The function
   takes no quota check result and makes no quota check: the attempt it
   prepares carries none (quotaCheck is NULL). *)
BuildSponsoredTransaction(a, senderAddress, buildFault) ==
    /\ attempt[a].pc = "Requested"
    /\ LET thrown == buildFault \/ ~FeePayerAvailable
       IN  /\ attempt' = IF thrown THEN attempt
                         ELSE [attempt EXCEPT ![a] =
                                 [pc |-> "AwaitingUserSignature",
                                  user |-> senderAddress,
                                  quotaCheck |-> Null]]
           /\ feePayerAccount' = IF thrown THEN feePayerAccount
                                 ELSE Some("fee_payer")
           /\ svc' = [fn |-> "buildSponsoredTransaction", thrown |-> thrown,
                      message |-> IF buildFault THEN "build failed"
                                  ELSE IF ~FeePayerAvailable
                                  THEN "GAS_SPONSOR_PRIVATE_KEY not configured"
                                  ELSE ""]
    /\ UNCHANGED <<versionService, adminTables, ledgerTables, now, checked, txn, markets, secret,
                   response>>

ChainResults == {"success", "vm_failure", "rejected"}

(* Mutant: the usage of the submitted transaction recorded before
   result.success is looked at. *)
LedgerAfterSubmitRecording(chainResult, user, hash, quotas, usage) ==
    <<[quotas EXCEPT ![<<user, now>>] = UpsertQuota(@, TotalGasFee(1, 1))],
      usage \cup {UsageRow(user, "m1", hash, 1, 1, now)}>>

(* The stored quotas and usage records after submitSponsoredTransaction:
   the function makes no storage call. *)
LedgerAfterSubmit(chainResult, user, hash, quotas, usage) ==
    <<quotas, usage>>

(* submitSponsoredTransaction: submit, wait, throw unless result.success,
   return the hash.  rejected: submit.simple throws. *)
SubmitSponsoredTransaction(a, chainResult) ==
    /\ attempt[a].pc = "AwaitingUserSignature"
    /\ attempt' = [attempt EXCEPT ![a] =
                     IF chainResult = "success"
                     THEN [pc |-> "Confirmed", user |-> attempt[a].user,
                           quotaCheck |-> attempt[a].quotaCheck, hash |-> a]
                     ELSE [pc |-> "Reverted", user |-> attempt[a].user,
                           quotaCheck |-> attempt[a].quotaCheck,
                           chainStatus |-> chainResult]]
    /\ LET ledger == LedgerAfterSubmit(chainResult, attempt[a].user, a,
                                        user_daily_quotas, gas_sponsorship_usage)
       IN  /\ user_daily_quotas' = ledger[1]
           /\ gas_sponsorship_usage' = ledger[2]
    /\ svc' = [fn |-> "submitSponsoredTransaction",
               thrown |-> chainResult # "success"]
    /\ UNCHANGED <<versionService, adminTables, now, checked, txn, service>>

(* The request bodies: userAddress "" and amount 0 are falsy, optionIndex
   NULL is undefined. *)
Bodies ==
    LET full(m) == [userAddress |-> "alice", marketId |-> m,
                    optionIndex |-> Some(0), amount |-> 1]
    IN  {full(m) : m \in MarketIds}
        \cup {[full("m1") EXCEPT !.userAddress = ""],
              [full("m1") EXCEPT !.optionIndex = Null],
              [full("m1") EXCEPT !.amount = 0]}

(* Mutant: the handler without the quota gate. *)
PostOutcomeWithoutQuotaGate(body, market, allowed, pathResolves, signs) ==
    IF \/ body.userAddress = "" \/ body.marketId = ""
       \/ body.optionIndex = Null \/ body.amount = 0
    THEN "missing_fields"
    ELSE IF market = {} THEN "market_not_found"
    ELSE IF \E m \in market : ~m.is_gas_sponsored THEN "not_gas_sponsored"
    ELSE IF \E m \in market : m.status # "active" THEN "not_active"
    ELSE IF ~pathResolves THEN "caught"
    ELSE IF ~signs THEN "caught"
    ELSE "ready"

(* Mutant: the handler without the test of market.status. *)
PostOutcomeWithoutStatusTest(body, market, allowed, pathResolves, signs) ==
    IF \/ body.userAddress = "" \/ body.marketId = ""
       \/ body.optionIndex = Null \/ body.amount = 0
    THEN "missing_fields"
    ELSE IF market = {} THEN "market_not_found"
    ELSE IF \E m \in market : ~m.is_gas_sponsored THEN "not_gas_sponsored"
    ELSE IF ~allowed THEN "quota"
    ELSE IF ~pathResolves THEN "caught"
    ELSE IF ~signs THEN "caught"
    ELSE "ready"

(* The step at which POST returns, from what its calls gave: the market
   rows fetched, the quota check's allowed, whether getMarketFunctionPath
   returned a path, whether buildSponsoredTransaction returned. *)
PostOutcome(body, market, allowed, pathResolves, signs) ==
    IF \/ body.userAddress = "" \/ body.marketId = ""
       \/ body.optionIndex = Null \/ body.amount = 0
    THEN "missing_fields"
    ELSE IF market = {} THEN "market_not_found"
    ELSE IF \E m \in market : ~m.is_gas_sponsored THEN "not_gas_sponsored"
    ELSE IF \E m \in market : m.status # "active" THEN "not_active"
    ELSE IF ~allowed THEN "quota"
    ELSE IF ~pathResolves THEN "caught"
    ELSE IF ~signs THEN "caught"
    ELSE "ready"

(* The step at which POST returns on the current state.  Each fault is that
   of the call the handler makes at that step: request.json() on a body
   that is not a JSON object (thrown inside the try), the market fetch, the
   quota rpc, the load of the contract versions, the build of the
   transaction. *)
PostStep(body, bodyFault, marketFault, quotaFault, contractsFault, buildFault) ==
    LET market     == IF marketFault THEN {} ELSE markets[body.marketId]
        quotaCheck == checkUserGasQuota(body.userAddress, EstimatedGas, quotaFault).result
    IN  IF bodyFault THEN "unparsed"
        ELSE PostOutcome(body, market, quotaCheck.allowed,
                         \A m \in market :
                             FunctionPathResolves(m.market_system, contractsFault),
                         ~buildFault /\ FeePayerAvailable)

PostStatus(step) ==
    CASE step = "unparsed"          -> 500
      [] step = "missing_fields"    -> 400
      [] step = "market_not_found"  -> 404
      [] step = "not_gas_sponsored" -> 400
      [] step = "not_active"        -> 400
      [] step = "quota"             -> 429
      [] step = "caught"            -> 500
      [] step = "ready"             -> 200

PostError(step) ==
    CASE step = "unparsed"          -> "Failed to create sponsored transaction"
      [] step = "missing_fields"    -> "Missing required fields"
      [] step = "market_not_found"  -> "Market not found"
      [] step = "not_gas_sponsored" -> "This market does not support gas sponsorship"
      [] step = "not_active"        -> "Market is not active"
      [] step = "quota"             -> "Gas quota exceeded"
      [] step = "caught"            -> "Failed to create sponsored transaction"
      [] step = "ready"             -> ""

(* The storage calls the handler made before it returned, those that
   failed among them. *)
PostStorageErrors(step, body, marketFault, quotaFault, contractsFault) ==
    LET fetched == step \notin {"unparsed", "missing_fields"}
        asked   == step \in {"quota", "caught", "ready"}
    IN  (IF fetched /\ marketFault THEN {"markets"} ELSE {})
        \cup (IF asked /\ checkUserGasQuota(body.userAddress, EstimatedGas,
                                            quotaFault).error
              THEN {"check_user_gas_quota"} ELSE {})
        \cup (IF step \in {"caught", "ready"} /\ contractsFault
              THEN {"blockchain_contracts"} ELSE {})

(* POST /api/sponsor/bet *)
POST(body, bodyFault, marketFault, quotaFault, contractsFault, buildFault) ==
    LET step == PostStep(body, bodyFault, marketFault, quotaFault, contractsFault,
                         buildFault)
    IN  /\ response' =
              [status |-> PostStatus(step), error |-> PostError(step),
               feePayerAuthenticator |-> step = "ready",
               quotaCheck |-> IF step \in {"quota", "caught", "ready"}
                              THEN Some(checkUserGasQuota(body.userAddress,
                                            EstimatedGas, quotaFault).result)
                              ELSE Null,
               storageErrors |-> PostStorageErrors(step, body, marketFault,
                                                   quotaFault, contractsFault)]
        /\ feePayerAccount' = IF step = "ready" THEN Some("fee_payer")
                              ELSE feePayerAccount
        /\ UNCHANGED <<versionService, adminTables, ledgerTables, now, checked, txn, attempt, svc,
                       markets, secret>>

(* A recording made before the flow starts: record_gas_usage("alice", "m1",
   hash 0, 1 unit at price 1) on day 0. *)
PriorUsage == {UsageRow("alice", "m1", 0, 1, 1, 0)}

FlowInit ==
    /\ \E c \in EnabledConfigs, market_whitelist_enabled \in BOOLEAN :
          /\ c.default_daily_limit_per_user = MaxGas
          /\ c.max_gas_per_transaction = 2
          /\ gas_station_config =
                [c EXCEPT !.market_whitelist_enabled = market_whitelist_enabled]
    /\ gas_station_blocked_users = [u \in Users |-> {}]
    /\ gas_station_whitelist = [u \in Users |-> {}]
    /\ \E recorded \in BOOLEAN :
          /\ gas_sponsorship_usage = IF recorded THEN PriorUsage ELSE {}
          /\ user_daily_quotas =
                [k \in Users \X Dates |->
                    IF recorded /\ k = <<"alice", 0>>
                    THEN UpsertQuota({}, TotalGasFee(1, 1)) ELSE {}]
    /\ now = 0
    /\ checked = Null
    /\ txn = [s \in Sessions |-> NoTxn]
    /\ attempt = [a \in Sessions |-> NoAttempt]
    /\ svc = NoCall
    /\ markets \in [MarketIds -> AtMostOne(MarketRows)]
    /\ markets["m2"] = {}
    /\ secret \in BOOLEAN
    /\ feePayerAccount = Null
    /\ response = NoResponse
    /\ VersionServiceIdle

(* The call of a request that fails, if any: the handler returns at the
   first call that fails, so later ones are never made. *)
PostFaults == {"none", "body", "markets", "quota", "contracts", "build"}

FlowNext ==
    \/ \E body \in Bodies, fault \in PostFaults :
            POST(body, fault = "body", fault = "markets", fault = "quota",
                 fault = "contracts",
                 fault = "build")
    \/ \E fault \in BOOLEAN : CallCheckUserGasQuota("alice", EstimatedGas, fault)
    \/ \E a \in Writers, buildFault \in BOOLEAN :
            BuildSponsoredTransaction(a, "alice", buildFault)
    \/ \E a \in Writers, chainResult \in ChainResults :
            SubmitSponsoredTransaction(a, chainResult)
    \/ \E a \in Writers, fault \in BOOLEAN :
            RecordGasUsage("alice", "m1", 1, a, fault)

SpecFlow == FlowInit /\ [][FlowNext]_vars

---------------------------------------------------------------------------
(* Claims about the sponsorship flow (SpecFlow) *)

(* C8: every attempt the chain reported successful (Confirmed) has a
   gas_sponsorship_usage row under its confirmed transaction hash for its
   user, and that user's quota row of the day counts it. *)
C8_RecordingOnConfirmation ==
    \A a \in Sessions :
        attempt[a].pc = "Confirmed"
        => /\ \E r \in gas_sponsorship_usage :
                 /\ r.tx_hash = attempt[a].hash
                 /\ r.user_address = attempt[a].user
           /\ \E q \in user_daily_quotas[<<attempt[a].user, now>>] :
                 q.transactions_today >= Cardinality(
                     {b \in Sessions : /\ attempt[b].pc = "Confirmed"
                                       /\ attempt[b].user = attempt[a].user})

(* C9: a step in which the chain reports a submitted transaction as failed
   (reverted or rejected) inserts no gas_sponsorship_usage row and changes
   no user_daily_quotas row. *)
C9_NoChargeOnFailure ==
    [][ \A a \in Sessions :
            ( /\ attempt[a].pc = "AwaitingUserSignature"
              /\ attempt'[a].pc = "Reverted" )
            => /\ gas_sponsorship_usage' = gas_sponsorship_usage
               /\ user_daily_quotas' = user_daily_quotas
      ]_vars

C9_Witness ==
    /\ \E a \in Sessions :
          attempt[a].pc = "Reverted" /\ attempt[a].chainStatus = "vm_failure"
    /\ \E a \in Sessions :
          attempt[a].pc = "Reverted" /\ attempt[a].chainStatus = "rejected"
    /\ gas_sponsorship_usage = PriorUsage
    /\ \E q \in user_daily_quotas[<<"alice", 0>>] :
          q.gas_used_today = 1 /\ q.transactions_today = 1

(* The results a quota lookup can hand to checkUserGasQuota. *)
LookupData ==
    {Null, Some(<< >>), Some(<<ResultRow(TRUE, 0, MaxGas, MaxGas, Null)>>)}

(* C10: when the quota lookup fails or returns nothing usable,
   checkUserGasQuota reports allowed = false; and a POST in which any
   storage call failed is not answered with success and produces no
   fee-payer signature. *)
C10_FailClosed ==
    /\ \A error \in BOOLEAN, data \in LookupData :
          (error \/ data \in {Null, Some(<< >>)})
          => ~CheckUserGasQuotaResult(error, data).allowed
    /\ (svc.fn = "checkUserGasQuota" /\ (svc.error \/ svc.data = Null))
       => ~svc.result.allowed
    /\ (response.status # 0 /\ response.storageErrors # {})
       => /\ response.status # 200
          /\ ~response.feePayerAuthenticator

C10_Witness ==
    /\ svc.fn = "checkUserGasQuota"
    /\ svc.error
    /\ ~svc.result.allowed
    /\ response.status = 429
    /\ "check_user_gas_quota" \in response.storageErrors
    /\ ~response.feePayerAuthenticator

(* C12: whatever its calls give, POST reaches the build and the fee-payer
   signature only with an allowed quota check; and a POST step changes no
   user_daily_quotas row and no gas_sponsorship_usage row, answers with a
   fee-payer signature only if the quota check of that request was allowed,
   and on a denial signs nothing, loads no fee-payer account and prepares
   no transaction. *)
C12_PrepareWithoutSideEffects ==
    /\ \A body \in Bodies, market \in AtMostOne(MarketRows),
          allowed \in BOOLEAN, pathResolves \in BOOLEAN, signs \in BOOLEAN :
          LET outcome == PostOutcome(body, market, allowed, pathResolves, signs)
          IN  /\ outcome = "ready" => allowed
              /\ ~allowed => outcome \notin {"caught", "ready"}
    /\ [][ response' # response
           => /\ user_daily_quotas' = user_daily_quotas
              /\ gas_sponsorship_usage' = gas_sponsorship_usage
              /\ response'.feePayerAuthenticator
                 => /\ response'.quotaCheck # Null
                    /\ Val(response'.quotaCheck).allowed
              /\ (response'.quotaCheck # Null /\ ~Val(response'.quotaCheck).allowed)
                 => /\ ~response'.feePayerAuthenticator
                    /\ feePayerAccount' = feePayerAccount
                    /\ attempt' = attempt
         ]_vars

C12_Witness ==
    /\ response.status = 429
    /\ response.quotaCheck # Null
    /\ ~Val(response.quotaCheck).allowed
    /\ ~response.feePayerAuthenticator
    /\ feePayerAccount = Null
    /\ gas_sponsorship_usage = PriorUsage
    /\ \A a \in Sessions : attempt[a] = NoAttempt

(* C17: with market_whitelist_enabled true, a well-formed request for a
   market not flagged is_gas_sponsored is refused as not sponsorable; with
   it false, no request is refused for the market's flag. *)
C17_MarketWhitelistGate ==
    /\ gas_station_config.market_whitelist_enabled
       => \A body \in Bodies, market \in AtMostOne(MarketRows),
             allowed \in BOOLEAN, pathResolves \in BOOLEAN, signs \in BOOLEAN :
             ( /\ PostOutcome(body, market, allowed, pathResolves, signs)
                     \notin {"missing_fields", "market_not_found"}
               /\ \E m \in market : ~m.is_gas_sponsored )
             => PostOutcome(body, market, allowed, pathResolves, signs)
                   = "not_gas_sponsored"
    /\ (response.status # 0 /\ ~gas_station_config.market_whitelist_enabled)
       => response.error # "This market does not support gas sponsorship"


(* C20: whatever its calls give, POST makes no quota check, builds nothing
   and signs nothing for a market whose status is not 'active'; every
   response that followed a quota check, a build or a fee-payer signature
   is for an active market. *)
C20_ActiveMarketsOnly ==
    /\ \A body \in Bodies, market \in AtMostOne(MarketRows),
          allowed \in BOOLEAN, pathResolves \in BOOLEAN, signs \in BOOLEAN :
          (\E m \in market : m.status # "active")
          => PostOutcome(body, market, allowed, pathResolves, signs)
                \in {"missing_fields", "not_gas_sponsored", "not_active"}
    /\ []( ( /\ response.status # 0
             /\ \/ response.quotaCheck # Null
                \/ response.feePayerAuthenticator )
           => \E id \in MarketIds : \E m \in markets[id] : m.status = "active" )

C20_Witness ==
    /\ response.status = 400
    /\ response.error = "Market is not active"
    /\ response.quotaCheck = Null
    /\ ~response.feePayerAuthenticator
    /\ feePayerAccount = Null
    /\ \E m \in markets["m1"] : m.status = "resolved" /\ m.is_gas_sponsored


(* C21: an attempt changes state only along Requested -> (QuotaChecked ->
   Assembled ->) AwaitingUserSignature -> (Submitted ->) Confirmed or
   Reverted, the states in parentheses being passed inside one call; an
   attempt that has a fee-payer signature or was submitted carries an
   approved quota check; Confirmed and Reverted have no successor. *)
C21_AttemptStateMachine ==
    [][ \A a \in Sessions :
            attempt'[a] # attempt[a]
            => /\ <<attempt[a].pc, attempt'[a].pc>>
                    \in {<<"Requested", "AwaitingUserSignature">>,
                         <<"AwaitingUserSignature", "Confirmed">>,
                         <<"AwaitingUserSignature", "Reverted">>}
               /\ attempt'[a].quotaCheck # Null
               /\ Val(attempt'[a].quotaCheck).allowed
      ]_vars


(* C22: a policy denial of prepare and a chain failure of submit reach the
   caller as result values: no call of submitSponsoredTransaction ends in a
   thrown fault, and a denied POST is answered with a response. *)
C22_ErrorsAsValues ==
    /\ svc.fn = "submitSponsoredTransaction" => ~svc.thrown
    /\ (response.status # 0 /\ response.quotaCheck # Null
        /\ ~Val(response.quotaCheck).allowed)
       => response.status = 429

(* C23: a process without the fee-payer secret answers no request, and no
   call reaches the build and then fails for lack of the secret. *)
C23_SecretIsStartupError ==
    /\ ~secret => response.status = 0
    /\ svc.fn = "buildSponsoredTransaction"
       => svc.message # "GAS_SPONSOR_PRIVATE_KEY not configured"

(* The responses of the sponsor endpoint by the step that produces them. *)
ClaimedResponses ==
    {<<400, "Missing required fields">>,
     <<404, "Market not found">>,
     <<400, "This market does not support gas sponsorship">>,
     <<400, "Market is not active">>,
     <<429, "Gas quota exceeded">>,
     <<500, "Failed to create sponsored transaction">>,
     <<200, "">>}

(* C30: every answer of POST is one of the listed responses, given by the
   first failing step in the order missing field (400), market not found
   (404), not gas-sponsored (400), not active (400), quota not allowed
   (429), fault resolving the path or building (500): a 429 comes with a
   denied quota check, a 500 only after the quota check allowed, and the
   success response only after it allowed and with the fee payer's
   signature. *)
C30_PrepareEndpointOutcome ==
    /\ \A body \in Bodies, market \in AtMostOne(MarketRows),
          allowed \in BOOLEAN, pathResolves \in BOOLEAN, signs \in BOOLEAN :
          LET step == PostOutcome(body, market, allowed, pathResolves, signs)
              missing == \/ body.userAddress = "" \/ body.marketId = ""
                         \/ body.optionIndex = Null \/ body.amount = 0
              sponsored == \A m \in market : m.is_gas_sponsored
              active == \A m \in market : m.status = "active"
          IN  step = (IF missing THEN "missing_fields"
                      ELSE IF market = {} THEN "market_not_found"
                      ELSE IF ~sponsored THEN "not_gas_sponsored"
                      ELSE IF ~active THEN "not_active"
                      ELSE IF ~allowed THEN "quota"
                      ELSE IF ~(pathResolves /\ signs) THEN "caught"
                      ELSE "ready")
    /\ [](response.status # 0
          => /\ <<response.status, response.error>> \in ClaimedResponses
             /\ response.status = 429
                => /\ response.quotaCheck # Null
                   /\ ~Val(response.quotaCheck).allowed
             /\ response.status \in {500, 200}
                => /\ response.quotaCheck # Null
                   /\ Val(response.quotaCheck).allowed
             /\ response.feePayerAuthenticator <=> response.status = 200)


---------------------------------------------------------------------------
(* The station's availability as its two readers see it: the service's
   isGasSponsorshipEnabled and the procedure check_user_gas_quota. *)

(* getGasStationConfig: the row of gas_station_config, or null on an error
   of the storage call. *)
getGasStationConfig(fault) ==
    IF fault THEN Null ELSE Some(gas_station_config)

(* isGasSponsorshipEnabled: config?.enabled ?? false *)
isGasSponsorshipEnabled(config) ==
    IF config = Null THEN FALSE ELSE Val(config).enabled

CallIsGasSponsorshipEnabled(fault) ==
    /\ svc' = [fn |-> "isGasSponsorshipEnabled", error |-> fault,
               result |-> isGasSponsorshipEnabled(getGasStationConfig(fault))]
    /\ UNCHANGED versionService
    /\ UNCHANGED <<adminTables, ledgerTables, now, checked, txn, attempt, service>>

StationInit ==
    /\ gas_station_config \in ConfigRows
    /\ gas_station_blocked_users = [u \in Users |-> {}]
    /\ gas_station_whitelist = [u \in Users |-> {}]
    /\ user_daily_quotas = [k \in Users \X Dates |-> {}]
    /\ gas_sponsorship_usage = {}
    /\ now = 0
    /\ checked = Null
    /\ txn = [s \in Sessions |-> NoTxn]
    /\ attempt = [a \in Sessions |-> NoAttempt]
    /\ svc = NoCall
    /\ ServiceIdle

StationNext ==
    \/ \E fault \in BOOLEAN : CallIsGasSponsorshipEnabled(fault)
    \/ \E u \in Users, est \in GasAmounts : CheckQuota(u, est)

SpecStation == StationInit /\ [][StationNext]_vars

(* C18: in every state with emergency_stop true, isGasSponsorshipEnabled
   answers false and check_user_gas_quota denies, whatever enabled is. *)
C18_EmergencyStopOverrides ==
    gas_station_config.emergency_stop
    => /\ svc.fn = "isGasSponsorshipEnabled" => ~svc.result
       /\ \A c \in checked : ~c.row.has_quota

(* C19: a check made under emergency_stop = true (enabled = true) is denied
   with a reason other than the one the same check gets with enabled =
   false and emergency_stop = false, and both are denied. *)
C19_DistinctDisableReasons ==
    \A c \in checked :
        (gas_station_config.enabled /\ gas_station_config.emergency_stop)
        => LET disabled == QuotaCheck(
                   [gas_station_config EXCEPT !.enabled = FALSE,
                                              !.emergency_stop = FALSE],
                   gas_station_blocked_users[c.user],
                   gas_station_whitelist[c.user],
                   user_daily_quotas[<<c.user, now>>], now, c.estimated_gas)
           IN  /\ ~c.row.has_quota
               /\ ~disabled.has_quota
               /\ c.row.reason # disabled.reason


---------------------------------------------------------------------------
(* Retention: record_gas_usage, check_user_gas_quota and cleanup_old_quotas
   over days far enough apart for the cleanup to delete something. *)

(* INTERVAL '30 days' *)
RetentionDays == 30

(* The days of this part: the first days and those a retention later. *)
RetentionDates == Dates \cup {RetentionDays + d : d \in Dates}

(* Mutant: the interval added instead of subtracted. *)
CleanupDeletesWithinRetention(date, t) == date < t + RetentionDays

(* DELETE FROM user_daily_quotas WHERE date < CURRENT_DATE - INTERVAL '30 days' *)
CleanupDeletes(date, t) == date < t - RetentionDays

(* cleanup_old_quotas() *)
cleanup_old_quotas ==
    /\ user_daily_quotas' =
          [k \in DOMAIN user_daily_quotas |->
              IF CleanupDeletes(k[2], now) THEN {} ELSE user_daily_quotas[k]]
    /\ UNCHANGED <<versionService, adminTables, gas_sponsorship_usage, now, checked, txn, attempt,
                   svc, service>>

(* The database clock moves on to a later day. *)
PassDays(d) ==
    /\ d > now
    /\ now' = d
    /\ UNCHANGED versionService
    /\ UNCHANGED <<adminTables, ledgerTables, checked, txn, attempt, svc, service>>

RetentionInit ==
    /\ gas_station_config \in
         {c \in EnabledConfigs : /\ c.default_daily_limit_per_user = MaxGas
                                 /\ c.max_gas_per_transaction = 2}
    /\ gas_station_blocked_users = [u \in Users |-> {}]
    /\ gas_station_whitelist = [u \in Users |-> {}]
    /\ user_daily_quotas = [k \in Users \X RetentionDates |-> {}]
    /\ gas_sponsorship_usage = {}
    /\ now = 0
    /\ checked = Null
    /\ txn = [s \in Sessions |-> NoTxn]
    /\ attempt = [a \in Sessions |-> NoAttempt]
    /\ svc = NoCall
    /\ ServiceIdle

RetentionNext ==
    \/ \E h \in Hashes, gp \in GasInputs :
            RecordInsert(1, "alice", "m1", h, gp[1], gp[2]) /\ UNCHANGED attempt
    \/ RecordUpsert(1) /\ UNCHANGED attempt
    \/ \E est \in GasAmounts : CheckQuota("alice", est)
    \/ \E d \in RetentionDates : PassDays(d)
    \/ cleanup_old_quotas

SpecRetention == RetentionInit /\ [][RetentionNext]_vars

(* C24: while the day stays the same, no operation deletes the quota row of
   a user for the current day or lowers its gas_used_today. *)
C24_MonotonicUsage ==
    [][ now' = now
        => \A u \in Users :
              \A q \in user_daily_quotas[<<u, now>>] :
                  \E r \in user_daily_quotas'[<<u, now>>] :
                      r.gas_used_today >= q.gas_used_today
      ]_vars

C24_Witness ==
    /\ now = RetentionDays + 1
    /\ user_daily_quotas[<<"alice", 0>>] = {}
    /\ \E r \in gas_sponsorship_usage : r.sponsored_at = 0
    /\ \E q \in user_daily_quotas[<<"alice", now>>] : q.transactions_today >= 1

(* C25: a check that reaches the quota step on day d reports as
   gas_used_today the fees recorded for the user on day d and nothing else,
   leaves as headroom the limit less those fees whatever was recorded on
   earlier days, and for a user with nothing recorded on day d reports 0
   with no row written or reset. *)
C25_ImplicitDailyReset ==
    [][ (checked' # checked /\ checked' # Null
         /\ Val(checked').row.reason
               \in {"OK", "Daily quota exceeded", "Gas per transaction limit exceeded"})
        => LET c == Val(checked')
               R == RecordedFor(c.user, now)
           IN  /\ c.row.gas_used_today = SumFees(R)
               /\ c.row.remaining_quota = c.row.daily_limit - SumFees(R)
               /\ R = {} => /\ c.row.gas_used_today = 0
                            /\ user_daily_quotas' = user_daily_quotas
      ]_vars

C25_Witness ==
    /\ checked # Null
    /\ now > 0
    /\ Val(checked).row.has_quota
    /\ Val(checked).row.gas_used_today = 0
    /\ user_daily_quotas[<<Val(checked).user, now>>] = {}
    /\ \E d \in RetentionDates :
          /\ d < now
          /\ \E q \in user_daily_quotas[<<Val(checked).user, d>>] :
                q.gas_used_today + Val(checked).estimated_gas
                    > Val(checked).row.daily_limit

(* C26: every stored sponsorship record has total_gas_fee = gas_used times
   gas_unit_price, and the step that stores a record raises the user's
   gas_used_today for the record's date by that fee and transactions_today
   by one, both counted from 0 when the user had no row. *)
C26_FeeArithmetic ==
    /\ [](\A r \in gas_sponsorship_usage :
              r.total_gas_fee = r.gas_used * r.gas_unit_price)
    /\ [][ \A r \in gas_sponsorship_usage' \ gas_sponsorship_usage :
              LET key == <<r.user_address, r.sponsored_at>>
                  before == user_daily_quotas[key]
                  used == IF before = {} THEN 0
                          ELSE (CHOOSE q \in before : TRUE).gas_used_today
                  count == IF before = {} THEN 0
                           ELSE (CHOOSE q \in before : TRUE).transactions_today
              IN  \E q \in user_daily_quotas'[key] :
                      /\ q.gas_used_today = used + r.gas_used * r.gas_unit_price
                      /\ q.transactions_today = count + 1
         ]_vars

C26_Witness ==
    \E r \in gas_sponsorship_usage :
        /\ r.gas_used = 1
        /\ r.gas_unit_price = 3
        /\ \E q \in user_daily_quotas[<<r.user_address, r.sponsored_at>>] :
              /\ q.transactions_today = 2
              /\ q.gas_used_today = 5

(* C27: in every state, for every user, the quota row of the current date
   holds the sum of total_gas_fee and the number of the user's sponsorship
   records of that date, and there is no row only if there is no record; a
   record_gas_usage call that fails on a duplicate hash changes neither
   table. *)
C27_LedgerConsistency ==
    /\ [](\A u \in Users :
              LET R == RecordedFor(u, now)
                  rows == user_daily_quotas[<<u, now>>]
              IN  /\ rows = {} => R = {}
                  /\ \A q \in rows : /\ q.gas_used_today = SumFees(R)
                                     /\ q.transactions_today = Cardinality(R))
    /\ [][ (\E s \in Sessions : /\ txn'[s] # txn[s]
                                /\ txn'[s].outcome = "unique_violation")
           => UNCHANGED ledgerTables
         ]_vars

C27_Witness ==
    /\ \E s \in Sessions : txn[s].outcome = "unique_violation"
    /\ now > 0
    /\ Cardinality(RecordedFor("alice", now)) = 1
    /\ \E r \in gas_sponsorship_usage : r.sponsored_at < now
    /\ \E q \in user_daily_quotas[<<"alice", now>>] : q.transactions_today = 1

---------------------------------------------------------------------------
(* Attempts of one user made one after another: the check of an attempt
   starts only when no earlier attempt of that user is approved and not yet
   recorded.  The first session is bob's and the others are alice's; the
   attempts of the two interleave freely, and the day may change between a
   check and its recording. *)

SequentialCheck(a, u, est) ==
    /\ \A b \in Sessions \ {a} :
          attempt[b].pc \in {"Approved", "Recording"} => attempt[b].user # u
    /\ Phase1Check(a, u, est)

SequentialNext ==
    \/ \E a \in Sessions, est \in GasAmounts :
            SequentialCheck(a, IF a = 1 THEN "bob" ELSE "alice", est)
    \/ \E a \in Sessions, m \in Markets, g \in GasAmounts : Phase2Insert(a, m, g)
    \/ \E a \in Sessions : Phase2Commit(a)
    \/ NextDay

SpecSequential == RaceInit /\ [][SequentialNext]_vars

(* C28: when the attempts of a user do not overlap and each records a fee
   of at most the estimate it was checked with, gas_used_today of every
   user and date stays within the user's effective daily limit. *)
C28_SequentialQuotaEnforcement ==
    \A u \in Users, d \in Dates :
        \A q \in user_daily_quotas[<<u, d>>] :
            q.gas_used_today
                <= V_daily_limit(gas_station_config, gas_station_whitelist[u],
                                 user_daily_quotas[<<u, d>>])

C28_Witness ==
    \E u \in Users :
        /\ UsedToday(u) = EffectiveDailyLimit(u)
        /\ Cardinality({a \in Sessions : /\ attempt[a].pc = "Recorded"
                                         /\ attempt[a].user = u}) >= 2
        /\ \E a \in Sessions : attempt[a].pc \in {"Approved", "Recording"}

---------------------------------------------------------------------------
(* The contract-version service: the process-wide cache of the latest
   blockchain_contracts rows.  Time is in ticks of 30 seconds, from 1 on
   (Date.now() is never 0).  A cached value is the rows as the storage
   returned them, marked with the time of that read.  Each caller has one
   call in progress; calls interleave at the await of the storage query,
   whose answer may arrive any time after the storage read it. *)

(* const CACHE_TTL = 60 * 1000, in ticks *)
CACHE_TTL == 2

(* if (cacheTimestamp > 0 && now - cacheTimestamp < CACHE_TTL) return *)
CacheStillValid(t) == cacheTimestamp > 0 /\ t - cacheTimestamp < CACHE_TTL

(* getContractByVersion(version) up to the await of the storage query:
   with a valid cache loadContractVersions returns and the cached contract
   is the answer; otherwise the query is sent. *)
getContractByVersion(c) ==
    /\ loads[c].pc = "idle"
    /\ IF CacheStillValid(clock)
       THEN /\ served' = [kind |-> "value", value |-> contractCache,
                          called_at |-> clock, reloaded |-> FALSE,
                          refreshed_at |-> refreshedAt]
            /\ UNCHANGED loads
       ELSE /\ loads' = [loads EXCEPT ![c] =
                           [pc |-> "querying", fn |-> "getContractByVersion",
                            now |-> clock, refreshed_at |-> refreshedAt]]
            /\ UNCHANGED served
    /\ UNCHANGED <<clock, contractCache, cacheTimestamp, refreshedAt>>
    /\ UNCHANGED <<adminTables, ledgerTables, now, checked, txn, attempt, svc, service>>

(* refreshContractVersions() up to the await of the storage query *)
refreshContractVersions(c) ==
    /\ loads[c].pc = "idle"
    /\ contractCache' = Null
    /\ cacheTimestamp' = 0
    /\ refreshedAt' = clock
    /\ loads' = [loads EXCEPT ![c] =
                    [pc |-> "querying", fn |-> "refreshContractVersions",
                     now |-> clock, refreshed_at |-> clock]]
    /\ UNCHANGED <<clock, served>>
    /\ UNCHANGED <<adminTables, ledgerTables, now, checked, txn, attempt, svc, service>>

(* The storage executes the query of a call: it reads the rows as they are
   now, or fails. *)
StorageReads(c, error) ==
    /\ loads[c].pc = "querying"
    /\ loads' = [loads EXCEPT ![c] =
                    [pc |-> "answered", fn |-> loads[c].fn, now |-> loads[c].now,
                     refreshed_at |-> loads[c].refreshed_at,
                     data |-> IF error THEN Null
                              ELSE Some([loaded_at |-> clock])]]
    /\ UNCHANGED <<clock, contractCache, cacheTimestamp, refreshedAt, served>>
    /\ UNCHANGED <<adminTables, ledgerTables, now, checked, txn, attempt, svc, service>>

(* loadContractVersions after the await: on an error it throws and the
   cache is as it was; otherwise the cache is cleared and filled with the
   rows received and cacheTimestamp becomes the now taken before the
   query.  getContractByVersion then answers from the cache. *)
LoadContinues(c) ==
    /\ loads[c].pc = "answered"
    /\ loads' = [loads EXCEPT ![c] = NoLoad]
    /\ IF loads[c].data = Null
       THEN /\ UNCHANGED <<contractCache, cacheTimestamp>>
            /\ served' = IF loads[c].fn = "getContractByVersion"
                         THEN [kind |-> "thrown", called_at |-> loads[c].now]
                         ELSE served
       ELSE /\ contractCache' = loads[c].data
            /\ cacheTimestamp' = loads[c].now
            /\ served' = IF loads[c].fn = "getContractByVersion"
                         THEN [kind |-> "value", value |-> loads[c].data,
                               called_at |-> loads[c].now, reloaded |-> TRUE,
                               refreshed_at |-> loads[c].refreshed_at]
                         ELSE served
    /\ UNCHANGED <<clock, refreshedAt>>
    /\ UNCHANGED <<adminTables, ledgerTables, now, checked, txn, attempt, svc, service>>

Tick ==
    /\ clock < MaxClock
    /\ clock' = clock + 1
    /\ UNCHANGED <<contractCache, cacheTimestamp, loads, refreshedAt, served>>
    /\ UNCHANGED <<adminTables, ledgerTables, now, checked, txn, attempt, svc, service>>

CacheNext ==
    \/ \E c \in Writers : getContractByVersion(c)
    \/ \E c \in Writers : refreshContractVersions(c)
    \/ \E c \in Writers, error \in BOOLEAN : StorageReads(c, error)
    \/ \E c \in Writers : LoadContinues(c)
    \/ Tick

SpecCache == Init /\ [][CacheNext]_vars

(* C29: every contract getContractByVersion answers with was read from
   storage at most CACHE_TTL before the call; an answer given without a
   reload is less than CACHE_TTL old; and an answer to a call made after
   refreshContractVersions was read from storage no earlier than that
   refresh, whatever calls are in progress at the same time. *)
C29_BoundedCacheStaleness ==
    (served.kind = "value" /\ served.value # Null)
    => /\ served.called_at - Val(served.value).loaded_at <= CACHE_TTL
       /\ ~served.reloaded
          => served.called_at - Val(served.value).loaded_at < CACHE_TTL
       /\ served.refreshed_at > 0
          => Val(served.value).loaded_at >= served.refreshed_at

============================================================================
